---- MODULE Spec2Model ----
(***************************************************************************)
(* TaskProcessManagerMax (src/src/TaskProcessManagerMax.ts): a scheduler   *)
(* that runs external processes under a pool of worker slots, with a       *)
(* polling loop (runSingle), per-task deadline timers, retries, pause,     *)
(* stop and cancellation.  Node runs every handler to its next await, so   *)
(* one action of this model is one handler run from one suspension point   *)
(* to the next.  A hook that is absent or synchronous does not suspend the *)
(* handler; a hook that returns a deferred completion does.                *)
(* The variable basic holds an instance of the basic manager               *)
(* TaskProcessManager (src/src/TaskProcessManager.ts), which the           *)
(* SpecBasic specifications run.                                           *)
(***************************************************************************)
EXTENDS Integers, Sequences, FiniteSets, Bags, TLC

\* ---- bounds of the model ------------------------------------------------
MaxTasks == 2          \* longest task list installed with setTasks
MaxThreads == 2        \* largest worker-slot count given to the constructor
MaxRetryCfg == 2       \* largest maxRetry given to the constructor
MaxCalls == 3          \* API calls made by the caller in one behaviour
LowRetryLimit == 0     \* a globalRetryLimit the caller sets low enough to be exceeded
MaxGroups == 2         \* most groups installed with setGroupedTasks

\* ---- program constants --------------------------------------------------
DefaultRetryLimit == 100
Null == -1
Undefined == -2

VARIABLES
    totalThreads,      \* constructor argument threads
    maxRetry,          \* constructor argument maxRetry
    globalRetryLimit,  \* public field globalRetryLimit
    deferred,          \* the hooks that return a deferred completion
    tasks,             \* this.tasks: sequence of commands, "null" once cancelled
    taskGroups,        \* this.taskGroups: sequence of sequences of commands
    lanes,             \* the lanes of runGroups: one suspended async callback
                       \* per group of each runGroups call
    runCount,          \* runGroups calls so far; names the lanes of one call
    threads,           \* this.threads: slot -> task index or Null
    processing,        \* this.processing (in-flight)
    processed,         \* this.processed (completed)
    isProcessing,
    isPaused,
    procs,             \* one record per spawned child: the closure of its
                       \* listeners, its entry in this.children (tracked) and
                       \* its deadline timer (timerArmed; timerRef: the timer
                       \* is the one stored in this.timeouts[idx])
    retryCount,
    globalRetryCount,
    taskStatus,
    retryTimers,       \* pending setTimeout(..., retryDelay) callbacks
    coros,             \* bag of suspended async calls (fn, pc, locals)
    dispatchCount,     \* history: times task i was assigned to a slot
    spawnCount,        \* history: times task i was spawned
    fired,             \* history: number of times a hook fired
    gSpawn,            \* history: times task k of group g was spawned
    gError,            \* history: times the error hook fired for task k of group g
    groupDone,         \* history: times the group hook fired for group g
    calls,             \* history: API calls made so far
    lastCall,          \* history: the latest API call and its argument
    budget,            \* the number of API calls the caller makes
    basic              \* a TaskProcessManager (src/src/TaskProcessManager.ts):
                       \* its fields, its children with their close
                       \* listeners, its polling loops and its histories

vars == <<totalThreads, maxRetry, globalRetryLimit, deferred, tasks, threads,
          processing, processed, isProcessing, isPaused, procs, retryCount,
          globalRetryCount, taskStatus, retryTimers, coros, dispatchCount,
          spawnCount, fired, calls, lastCall, budget, taskGroups, lanes,
          runCount, gSpawn, gError, groupDone, basic>>

cfgVars == <<totalThreads, maxRetry, globalRetryLimit, deferred, budget>>

TaskIds == 0 .. MaxTasks - 1
Commands == {"ok", "fail"}
Statuses == {"waiting", "running", "done", "failed", "timeout", "cancelled", "stopped"}
TaskLists == UNION {[1 .. n -> Commands] : n \in 0 .. MaxTasks}
GroupIds == 0 .. MaxGroups - 1
GroupLists == UNION {[1 .. n -> TaskLists] : n \in 0 .. MaxGroups}

\* the hooks the handlers await before they go on changing state; afterRunTask
\* stands for the two awaits of lines 219-220, afterStopTask for the two of
\* lines 143-144
Hooks == {"beforeStart", "afterStart", "onTasksRunning", "beforeRunTask",
          "afterRunTask", "onTaskRetry", "beforeStop", "beforeStopTask",
          "afterStopTask", "beforePause"}
\* the hooks awaited by start(), runSingle and the close handler
RunHooks == {"beforeStart", "afterStart", "onTasksRunning", "beforeRunTask",
             "afterRunTask", "onTaskRetry"}

\* ---- the mutable state as one record, for the handlers ------------------
Cur == [tasks |-> tasks, threads |-> threads, processing |-> processing,
        processed |-> processed, isProcessing |-> isProcessing,
        isPaused |-> isPaused, procs |-> procs, retryCount |-> retryCount,
        globalRetryCount |-> globalRetryCount, taskStatus |-> taskStatus,
        retryTimers |-> retryTimers, coros |-> coros,
        dispatchCount |-> dispatchCount, spawnCount |-> spawnCount,
        fired |-> fired, taskGroups |-> taskGroups, lanes |-> lanes,
        runCount |-> runCount, gSpawn |-> gSpawn, gError |-> gError,
        groupDone |-> groupDone]

Becomes(S) ==
    /\ tasks' = S.tasks
    /\ threads' = S.threads
    /\ processing' = S.processing
    /\ processed' = S.processed
    /\ isProcessing' = S.isProcessing
    /\ isPaused' = S.isPaused
    /\ procs' = S.procs
    /\ retryCount' = S.retryCount
    /\ globalRetryCount' = S.globalRetryCount
    /\ taskStatus' = S.taskStatus
    /\ retryTimers' = S.retryTimers
    /\ coros' = S.coros
    /\ dispatchCount' = S.dispatchCount
    /\ spawnCount' = S.spawnCount
    /\ fired' = S.fired
    /\ taskGroups' = S.taskGroups
    /\ lanes' = S.lanes
    /\ runCount' = S.runCount
    /\ gSpawn' = S.gSpawn
    /\ gError' = S.gError
    /\ groupDone' = S.groupDone
    /\ UNCHANGED cfgVars
    /\ UNCHANGED basic

\* ---- helpers ------------------------------------------------------------
Includes(s, x) == \E k \in 1 .. Len(s) : s[k] = x
Without(s, x) == SelectSeq(s, LAMBDA y : y # x)
\* PushNew without the includes() test of lines 141 and 217
PushAlways(s, x) == Append(s, x)
PushNew(s, x) == IF Includes(s, x) THEN s ELSE Append(s, x)
Idle(n) == [k \in 1 .. n |-> Null]
Coro(fn, pc, t, idx, cmd) == [fn |-> fn, pc |-> pc, t |-> t, idx |-> idx, cmd |-> cmd]
Suspend(S, c) == [S EXCEPT !.coros = @ (+) SetToBag({c})]
Resumed(S, c) == [S EXCEPT !.coros = @ (-) SetToBag({c})]
Fire(S, hook) == [S EXCEPT !.fired[hook] = @ + 1]
Deferred(hook) == hook \in deferred

\* a closed child is forgotten once its deadline timer is no longer pending
Live(P) == {p \in P : p.phase # "closed" \/ p.timerArmed}

\* child.kill(signal): only a process that has not closed is affected
kill(p) == IF p.phase = "live" THEN [p EXCEPT !.killed = TRUE] ELSE p

\* clearTimeout of the timer stored in this.timeouts[i], and delete of the key
clearTimer(p) == IF p.timerRef THEN [p EXCEPT !.timerArmed = FALSE, !.timerRef = FALSE] ELSE p

\* ---- resetState / setTasks ---------------------------------------------
resetState(S) ==
    [S EXCEPT !.processed = <<>>,
              !.processing = <<>>,
              !.threads = Idle(totalThreads),
              !.procs = Live({[clearTimer(p) EXCEPT !.tracked = FALSE] : p \in S.procs}),
              !.retryCount = [i \in TaskIds |-> 0],
              !.taskStatus = [i \in TaskIds |-> "none"]]

setTasks(S, ts) ==
    LET R == resetState([S EXCEPT !.tasks = ts, !.taskGroups = <<>>])
    IN [R EXCEPT !.taskStatus = [i \in TaskIds |-> IF i < Len(ts) THEN "waiting" ELSE "none"]]

\* lines 84-88
setGroupedTasks(S, gs) == resetState([S EXCEPT !.taskGroups = gs, !.tasks = <<>>])

\* ---- runSingle ----------------------------------------------------------
Eligible(S, i) ==
    /\ S.tasks[i + 1] # "null"
    /\ ~Includes(S.processing, i)
    /\ ~Includes(S.processed, i)
    /\ S.taskStatus[i] # "cancelled"

\* findIndex taking the last eligible task instead of the first
findLastIndex(S) ==
    LET E == {i \in 0 .. Len(S.tasks) - 1 : Eligible(S, i)}
    IN IF E = {} THEN Null ELSE CHOOSE i \in E : \A j \in E : i >= j

findIndex(S) ==
    LET E == {i \in 0 .. Len(S.tasks) - 1 : Eligible(S, i)}
    IN IF E = {} THEN Null ELSE CHOOSE i \in E : \A j \in E : i <= j

\* lines 182-184: the slot and the in-flight set take the task
assign(S, t, i) ==
    [S EXCEPT !.threads[t + 1] = i,
              !.processing = Append(@, i),
              !.taskStatus[i] = "running",
              !.dispatchCount[i] = @ + 1]

\* lines 189-200: spawn, this.children.set, this.timeouts[i] = setTimeout(...)
spawn(S, t, i, cmd) ==
    LET child == [idx |-> i, att |-> S.spawnCount[i] + 1, t |-> t, cmd |-> cmd,
                  phase |-> "live", code |-> 0, killed |-> FALSE,
                  tracked |-> TRUE, timerArmed |-> TRUE, timerRef |-> TRUE,
                  g |-> Null]
        others == {IF p.idx = i
                   THEN [p EXCEPT !.tracked = FALSE, !.timerRef = FALSE]
                   ELSE p : p \in S.procs}
    IN [S EXCEPT !.procs = Live(others) \cup {child},
                 !.spawnCount[i] = @ + 1]

\* lines 176-245: the for loop over the slots, from slot t on, up to the
\* next suspension (beforeRunTask when deferred, else delay(sleep))
RECURSIVE forLoop(_, _)
forLoop(S, t) ==
    IF t >= totalThreads THEN Suspend(S, Coro("runSingle", "delay", 0, Null, "null"))
    ELSE IF t + 1 > Len(S.threads) \/ S.threads[t + 1] # Null THEN forLoop(S, t + 1)
    ELSE LET nextIdx == findIndex(S)
         IN IF nextIdx = Null THEN forLoop(S, t + 1)
            ELSE LET A == assign(S, t, nextIdx)
                     task == S.tasks[nextIdx + 1]
                 IN IF Deferred("beforeRunTask")
                    THEN Suspend(A, Coro("runSingle", "beforeRunTask", t, nextIdx, task))
                    ELSE forLoop(spawn(A, t, nextIdx, task), t + 1)

\* lines 170-175 and 248-249: the loop condition, evaluated on entry and
\* after every delay
runSingle(S) ==
    IF S.isProcessing /\ Len(S.processed) < Len(S.tasks)
    THEN IF S.isPaused THEN Suspend(S, Coro("runSingle", "delay", 0, Null, "null"))
         ELSE IF Deferred("onTasksRunning") THEN Suspend(S, Coro("runSingle", "onTasksRunning", 0, Null, "null"))
         ELSE forLoop(S, 0)
    ELSE Fire([S EXCEPT !.isProcessing = FALSE], "onAllTasksDone")

\* ---- the close handler of a child (lines 212-244) -----------------------
\* this.threads[t] = null: a write past the end of the array lengthens it and
\* leaves holes, which read undefined
setSlotNull(th, t) ==
    [k \in 1 .. (IF t + 1 > Len(th) THEN t + 1 ELSE Len(th)) |->
        IF k = t + 1 THEN Null ELSE IF k <= Len(th) THEN th[k] ELSE Undefined]

closed(p) == [p EXCEPT !.phase = "closed"]
SetProc(S, p, q) == [S EXCEPT !.procs = Live((@ \ {p}) \cup {q})]

\* lines 233-236: undo the completion and arm the retry timer
closeC(S, p) ==
    LET R == [S EXCEPT !.processed = Without(@, p.idx),
                       !.retryTimers = @ + 1]
    IN SetProc(R, p, closed(p))

\* lines 222-232 and 237-242: status, counters and the retry decision
closeB(S, p) ==
    IF p.code = 0
    THEN SetProc([S EXCEPT !.taskStatus[p.idx] = "done"], p, closed(p))
    ELSE LET R == [S EXCEPT !.taskStatus[p.idx] = "failed",
                            !.retryCount[p.idx] = @ + 1,
                            !.globalRetryCount = @ + 1]
         IN IF R.retryCount[p.idx] <= maxRetry /\ R.globalRetryCount <= globalRetryLimit
            THEN IF Deferred("onTaskRetry")
                 THEN SetProc(Fire(R, "onTaskRetry"), p, [p EXCEPT !.phase = "onTaskRetry"])
                 ELSE closeC(Fire(R, "onTaskRetry"), p)
            ELSE IF R.globalRetryCount > globalRetryLimit
                 THEN SetProc([R EXCEPT !.isProcessing = FALSE], p, closed(p))
                 ELSE SetProc(R, p, closed(p))

\* line 221: the error hook, fired for a nonzero or null exit code before the
\* status is written
closeE(S, p) ==
    IF p.code # 0 /\ Deferred("onTaskError")
    THEN SetProc(S, p, [p EXCEPT !.phase = "onTaskError"])
    ELSE closeB(S, p)

\* closeA without the push onto this.processed of line 217
closeA_noPush(S, p, code) ==
    LET drop(q) == IF q.idx = p.idx THEN [clearTimer(q) EXCEPT !.tracked = FALSE] ELSE q
        me == [drop(p) EXCEPT !.phase = "afterRunTask", !.code = code]
        R == [S EXCEPT !.procs = ({drop(q) : q \in S.procs} \ {drop(p)}) \cup {me},
                       !.processing = Without(@, p.idx),
                       !.threads = setSlotNull(@, p.t)]
    IN IF Deferred("afterRunTask") THEN R ELSE closeE(R, me)

\* lines 213-219: timer, children, in-flight, completed and slot
closeA(S, p, code) ==
    LET drop(q) == IF q.idx = p.idx THEN [clearTimer(q) EXCEPT !.tracked = FALSE] ELSE q
        me == [drop(p) EXCEPT !.phase = "afterRunTask", !.code = code]
        R == [S EXCEPT !.procs = ({drop(q) : q \in S.procs} \ {drop(p)}) \cup {me},
                       !.processing = Without(@, p.idx),
                       !.processed = PushNew(@, p.idx),
                       !.threads = setSlotNull(@, p.t)]
    IN IF Deferred("afterRunTask") THEN R ELSE closeE(R, me)

\* exit codes a child can close with: its command's own, or none (a signal)
\* when it was killed; 1 stands for every code other than 0
ExitCodes(p) == (IF p.cmd = "ok" THEN {0} ELSE {1}) \cup (IF p.killed THEN {1} ELSE {})

\* lines 193-200: the deadline timer of child p expires
timeout(S, p) ==
    LET hit == IF \E q \in S.procs : q.idx = p.idx /\ q.tracked THEN kill(p) ELSE p
        q == [hit EXCEPT !.timerArmed = FALSE, !.timerRef = FALSE]
    IN SetProc(Fire([S EXCEPT !.taskStatus[p.idx] = "timeout"], "onTaskTimeout"), p, q)

\* lines 234-236: the retry timer expires
retryTimer(S) ==
    LET R == [S EXCEPT !.retryTimers = @ - 1]
    IN IF R.isProcessing THEN runSingle(R) ELSE R

\* ---- runGroups / runSingleTask (lines 253-295) --------------------------
\* a lane: the async callback of group g (0-based) of runGroups call `run`,
\* about task k of its group; `of` is the number of lanes of that call
Lane(run, g, k, group, of, pc) ==
    [run |-> run, g |-> g, k |-> k, group |-> group, of |-> of, pc |-> pc]

\* lines 255-256: spawn of task k of the lane; the child is entered neither
\* in this.children nor in this.timeouts
spawnG(S, l) ==
    LET child == [idx |-> l.k, att |-> l.run, t |-> Null, cmd |-> l.group[l.k + 1],
                  phase |-> "live", code |-> 0, killed |-> FALSE,
                  tracked |-> FALSE, timerArmed |-> FALSE, timerRef |-> FALSE,
                  g |-> l.g]
    IN [S EXCEPT !.procs = @ \cup {child},
                 !.gSpawn[<<l.g, l.k>>] = @ + 1,
                 !.lanes = @ \cup {[l EXCEPT !.pc = "child"]}]

\* laneEnd without the join of Promise.all: the end of any lane ends the run
laneEndAny(S, l) ==
    Fire([S EXCEPT !.lanes = @ \cup {[l EXCEPT !.pc = "end"]},
                   !.isProcessing = FALSE], "onAllTasksDone")

\* lines 293-294, once Promise.all has every lane of the call resolved
laneEnd(S, l) ==
    LET L == S.lanes \cup {[l EXCEPT !.pc = "end"]}
        mine == {x \in L : x.run = l.run}
    IN IF \A x \in mine : x.pc = "end" /\ Cardinality(mine) = l.of
       THEN Fire([S EXCEPT !.lanes = L \ mine, !.isProcessing = FALSE], "onAllTasksDone")
       ELSE [S EXCEPT !.lanes = L]

\* lane without the await of line 288: the rest of the group is spawned at once
laneNoAwait(S, l) ==
    IF l.k < Len(l.group) /\ S.isProcessing
    THEN LET ks == l.k .. Len(l.group) - 1
             child(k) == [idx |-> k, att |-> l.run, t |-> Null, cmd |-> l.group[k + 1],
                          phase |-> "live", code |-> 0, killed |-> FALSE,
                          tracked |-> FALSE, timerArmed |-> FALSE, timerRef |-> FALSE,
                          g |-> l.g]
         IN [S EXCEPT !.procs = @ \cup {child(k) : k \in ks},
                      !.gSpawn = [x \in DOMAIN @ |->
                                     IF x[1] = l.g /\ x[2] \in ks THEN @[x] + 1 ELSE @[x]],
                      !.lanes = @ \cup {[l EXCEPT !.pc = "child", !.k = Len(l.group) - 1]}]
    ELSE LET R == [S EXCEPT !.groupDone[l.g] = @ + 1]
         IN IF Deferred("onGroupDone")
            THEN [R EXCEPT !.lanes = @ \cup {[l EXCEPT !.pc = "onGroupDone"]}]
            ELSE laneEnd(R, l)

\* lines 286-290: the lane's loop from task l.k on, up to its next suspension
lane(S, l) ==
    IF l.k < Len(l.group) /\ S.isProcessing THEN spawnG(S, l)
    ELSE LET R == [S EXCEPT !.groupDone[l.g] = @ + 1]
         IN IF Deferred("onGroupDone")
            THEN [R EXCEPT !.lanes = @ \cup {[l EXCEPT !.pc = "onGroupDone"]}]
            ELSE laneEnd(R, l)

\* line 285: map starts the lanes one after the other
RECURSIVE startLanes(_, _, _)
startLanes(S, run, g) ==
    IF g > Len(S.taskGroups) THEN S
    ELSE startLanes(lane(S, Lane(run, g - 1, 0, S.taskGroups[g], Len(S.taskGroups), "new")),
                    run, g + 1)

runGroups(S) == startLanes([S EXCEPT !.runCount = @ + 1], S.runCount + 1, 1)

\* closeG leaving the lane's loop when the child failed
closeGBreak(S, p, l, code) ==
    LET R == [S EXCEPT !.procs = @ \ {p},
                       !.lanes = @ \ {l},
                       !.taskStatus[p.idx] = IF code = 0 THEN "done" ELSE "failed",
                       !.gError[<<p.g, p.idx>>] = IF code = 0 THEN @ ELSE @ + 1]
    IN IF Deferred("onTaskDone")
       THEN [R EXCEPT !.lanes = @ \cup {[l EXCEPT !.pc = "onTaskDone"]}]
       ELSE lane(R, [l EXCEPT !.k = IF code = 0 THEN @ + 1 ELSE Len(l.group)])

\* lines 269-278: the close handler of a grouped child p of lane l
closeG(S, p, l, code) ==
    LET R == [S EXCEPT !.procs = @ \ {p},
                       !.lanes = @ \ {l},
                       !.taskStatus[p.idx] = IF code = 0 THEN "done" ELSE "failed",
                       !.gError[<<p.g, p.idx>>] = IF code = 0 THEN @ ELSE @ + 1]
    IN IF Deferred("onTaskDone")
       THEN [R EXCEPT !.lanes = @ \cup {[l EXCEPT !.pc = "onTaskDone"]}]
       ELSE lane(R, [l EXCEPT !.k = @ + 1])

\* lines 108-112
run(S) == IF Len(S.taskGroups) > 0 THEN runGroups(S) ELSE runSingle(S)

\* ---- the API ------------------------------------------------------------
\* lines 104-112
startBody(S) ==
    LET R == [S EXCEPT !.isProcessing = TRUE, !.isPaused = FALSE,
                       !.threads = Idle(totalThreads)]
    IN IF Deferred("afterStart") THEN Suspend(R, Coro("start", "afterStart", 0, Null, "null"))
       ELSE run(R)

\* lines 98-103
start(S) ==
    IF S.isProcessing THEN Fire(S, "alreadyRunning")
    ELSE IF Deferred("beforeStart") THEN Suspend(S, Coro("start", "beforeStart", 0, Null, "null"))
    ELSE startBody(S)

\* lines 117-128
stopBody(S) ==
    [S EXCEPT !.isProcessing = FALSE,
              !.isPaused = FALSE,
              !.procs = Live({[clearTimer(IF p.tracked THEN kill(p) ELSE p)
                                 EXCEPT !.tracked = FALSE] : p \in S.procs}),
              !.processing = <<>>,
              !.processed = <<>>,
              !.threads = Idle(totalThreads)]

stop(S) ==
    IF Deferred("beforeStop") THEN Suspend(S, Coro("stop", "beforeStop", 0, Null, "null"))
    ELSE stopBody(S)

\* line 145
stopTaskEnd(S, i) == [S EXCEPT !.taskStatus[i] = "stopped"]

\* lines 135-144
stopTaskBody(S, i) ==
    LET R == IF \E p \in S.procs : p.idx = i /\ p.tracked
             THEN [S EXCEPT !.procs = {IF p.idx = i /\ p.tracked
                                       THEN [kill(p) EXCEPT !.tracked = FALSE]
                                       ELSE p : p \in S.procs},
                            !.processing = Without(@, i),
                            !.threads = [k \in DOMAIN @ |-> IF @[k] = i THEN Null ELSE @[k]],
                            !.processed = PushNew(@, i)]
             ELSE S
    IN IF Deferred("afterStopTask") THEN Suspend(R, Coro("stopTask", "afterStopTask", 0, i, "null"))
       ELSE stopTaskEnd(R, i)

stopTask(S, i) ==
    IF Deferred("beforeStopTask") THEN Suspend(S, Coro("stopTask", "beforeStopTask", 0, i, "null"))
    ELSE stopTaskBody(S, i)

\* lines 149-153
pauseBody(S) == [S EXCEPT !.isPaused = TRUE]

pause(S) ==
    IF Deferred("beforePause") THEN Suspend(S, Coro("pause", "beforePause", 0, Null, "null"))
    ELSE pauseBody(S)

\* continue without the test of line 156
continueAlways(S) ==
    runSingle(Fire([S EXCEPT !.isPaused = FALSE, !.isProcessing = TRUE], "resumed"))

\* lines 155-160; "resumed" counts the calls that got past line 156
continue(S) ==
    IF ~S.isPaused \/ S.isProcessing THEN S
    ELSE runSingle(Fire([S EXCEPT !.isPaused = FALSE, !.isProcessing = TRUE], "resumed"))

\* lines 162-167
cancelTask(S, i) ==
    IF Includes(S.processing, i) THEN S
    ELSE [S EXCEPT !.tasks[i + 1] = "null", !.taskStatus[i] = "cancelled"]

\* lines 297-312
destroy(S) ==
    Fire([S EXCEPT !.isProcessing = FALSE,
                   !.isPaused = FALSE,
                   !.procs = Live({[clearTimer(IF p.tracked THEN kill(p) ELSE p)
                                      EXCEPT !.tracked = FALSE] : p \in S.procs}),
                   !.tasks = <<>>,
                   !.threads = <<>>,
                   !.processing = <<>>,
                   !.processed = <<>>], "onDestroy")

\* lines 334-344: the counts of the status report
getStatus(S) ==
    [total |-> Len(S.tasks),
     running |-> Len(S.processing),
     done |-> Len(S.processed),
     waiting |-> Len(S.tasks) - Len(S.processing) - Len(S.processed)]

\* ---- TaskProcessManager (src/src/TaskProcessManager.ts) -----------------
\* The basic manager keys its slots and lists by strings: String(i) for a
\* task or a group, `${groupKey}-${tIdx}` for a task of a group.  Its hooks
\* are taken to be absent or synchronous, so a handler runs to the delay of
\* its loop or to the close of the process it waits for.
NullKey == "null"
String(i) == ToString(i)
TaskKey(groupKey, tIdx) == groupKey \o "-" \o String(tIdx)
Keys ==
    {String(i) : i \in 0 .. MaxTasks - 1} \cup {String(g) : g \in GroupIds}
        \cup {TaskKey(String(g), k) : g \in GroupIds, k \in TaskIds}

\* lines 41-45, with the histories of the model: spawned counts the
\* processes spawned under a key, groupsStarted the runGroupTasks calls
\* for a group key, allDone the times line 90 was reached
BasicNew(n) ==
    [tasks |-> <<>>, taskGroups |-> <<>>, isProcessing |-> FALSE,
     threads |-> [k \in 1 .. n |-> NullKey],
     processing |-> <<>>, processed |-> <<>>,
     children |-> {}, loops |-> [f \in {"runTasks", "runGroups"} |-> 0],
     spawned |-> [key \in Keys |-> 0],
     groupsStarted |-> [key \in Keys |-> 0],
     allDone |-> 0, calls |-> 0]

\* lines 69-74; a child dropped from the map keeps running
reset(B) ==
    [B EXCEPT !.children = {[c EXCEPT !.tracked = FALSE] : c \in @},
              !.threads = [k \in 1 .. totalThreads |-> NullKey],
              !.processing = <<>>,
              !.processed = <<>>]

\* lines 48-52
basicSetTasks(B, ts) == reset([B EXCEPT !.tasks = ts, !.taskGroups = <<>>])
\* lines 54-58
basicSetGroupedTasks(B, gs) == reset([B EXCEPT !.taskGroups = gs, !.tasks = <<>>])

\* lines 105 and 125: the first index whose key is in neither list, or Null
basicFindIndex(B, list) ==
    LET E == {i \in 0 .. Len(list) - 1 :
                ~Includes(B.processing, String(i)) /\ ~Includes(B.processed, String(i))}
    IN IF E = {} THEN Null ELSE CHOOSE i \in E : \A j \in E : i <= j

\* lines 153-160 (no beforeRunTask to wait for): the child is spawned and put
\* in the map under its key; wait, groupKey, group, tIdx are the locals of the
\* runGroupTasks call that waits for its close
spawnTask(B, thread, taskKey, task, wait, groupKey, group, tIdx) ==
    [B EXCEPT !.children =
                  {[c EXCEPT !.tracked = IF c.key = taskKey THEN FALSE ELSE @] : c \in @}
                      \cup {[key |-> taskKey, att |-> B.spawned[taskKey] + 1,
                             thread |-> thread, task |-> task, killed |-> FALSE,
                             tracked |-> TRUE, wait |-> wait, groupKey |-> groupKey,
                             group |-> group, tIdx |-> tIdx]},
              !.spawned[taskKey] = @ + 1]

\* lines 146-149
groupDoneBasic(B, thread, groupKey) ==
    [B EXCEPT !.processing = Without(@, groupKey),
              !.processed = PushNew(@, groupKey),
              !.threads[thread + 1] = NullKey]

\* lines 139-150, from entry tIdx of the group on: the call stops at the
\* spawn of the next task, whose close it awaits, or marks the group done
runGroupTasks(B, thread, groupKey, group, tIdx) ==
    IF tIdx < Len(group) /\ B.isProcessing
    THEN spawnTask(B, thread, TaskKey(groupKey, tIdx), group[tIdx + 1], TRUE,
                   groupKey, group, tIdx)
    ELSE groupDoneBasic(B, thread, groupKey)

\* lines 102-113: body of the for loop of runTasks from slot t on
RECURSIVE runTasksFor(_, _)
runTasksFor(B, t) ==
    IF t >= totalThreads THEN B
    ELSE IF B.threads[t + 1] # NullKey THEN runTasksFor(B, t + 1)
    ELSE LET nextIdx == basicFindIndex(B, B.tasks)
         IN IF nextIdx = Null THEN runTasksFor(B, t + 1)
            ELSE runTasksFor(
                   spawnTask([B EXCEPT !.threads[t + 1] = String(nextIdx),
                                       !.processing = Append(@, String(nextIdx))],
                             t, String(nextIdx), B.tasks[nextIdx + 1], FALSE,
                             NullKey, <<>>, 0),
                   t + 1)

\* lines 122-133: body of the for loop of runGroups from slot t on
RECURSIVE runGroupsFor(_, _)
runGroupsFor(B, t) ==
    IF t >= totalThreads THEN B
    ELSE IF B.threads[t + 1] # NullKey THEN runGroupsFor(B, t + 1)
    ELSE LET nextIdx == basicFindIndex(B, B.taskGroups)
         IN IF nextIdx = Null THEN runGroupsFor(B, t + 1)
            ELSE runGroupsFor(
                   runGroupTasks([B EXCEPT !.threads[t + 1] = String(nextIdx),
                                           !.processing = Append(@, String(nextIdx)),
                                           !.groupsStarted[String(nextIdx)] = @ + 1],
                                 t, String(nextIdx), B.taskGroups[nextIdx + 1], 0),
                   t + 1)

\* lines 88-93: start() goes on when its loop has returned
startEnd(B) == [B EXCEPT !.isProcessing = FALSE, !.allDone = @ + 1]

\* lines 100-117 from the test of the while on
runTasks(B) ==
    IF B.isProcessing /\ Len(B.processed) < Len(B.tasks)
    THEN [runTasksFor(B, 0) EXCEPT !.loops["runTasks"] = @ + 1]
    ELSE startEnd(B)

\* lines 120-137 from the test of the while on
basicRunGroups(B) ==
    IF B.isProcessing /\ Len(B.processed) < Len(B.taskGroups)
    THEN [runGroupsFor(B, 0) EXCEPT !.loops["runGroups"] = @ + 1]
    ELSE startEnd(B)

\* lines 77-97
basicStart(B) ==
    IF B.isProcessing THEN B
    ELSE IF Len(B.taskGroups) > 0
         THEN basicRunGroups([B EXCEPT !.isProcessing = TRUE])
         ELSE runTasks([B EXCEPT !.isProcessing = TRUE])

\* lines 174-196 for child c, and for a child of a group the rest of the
\* runGroupTasks call that its resolve() resumes
basicClose(B, c) ==
    LET R == [B EXCEPT !.children =
                           {[d EXCEPT !.tracked = IF d.key = c.key THEN FALSE ELSE @]
                              : d \in @ \ {c}},
                       !.processed = PushNew(@, c.key),
                       !.processing = Without(@, c.key),
                       !.threads = IF c.wait THEN @
                                   ELSE [@ EXCEPT ![c.thread + 1] = NullKey]]
    IN IF c.wait THEN runGroupTasks(R, c.thread, c.groupKey, c.group, c.tIdx + 1)
       ELSE R

\* lines 215-223
basicStopTask(B, taskKey) ==
    IF \E c \in B.children : c.key = taskKey /\ c.tracked
    THEN [B EXCEPT !.children = {IF c.key = taskKey /\ c.tracked
                                 THEN [c EXCEPT !.killed = TRUE, !.tracked = FALSE]
                                 ELSE c : c \in @},
                   !.processing = Without(@, taskKey),
                   !.threads = [k \in DOMAIN @ |-> IF @[k] = taskKey THEN NullKey ELSE @[k]]]
    ELSE B

\* lines 206-212
basicStop(B) ==
    [B EXCEPT !.isProcessing = FALSE,
              !.children = {[c EXCEPT !.killed = IF c.tracked THEN TRUE ELSE @,
                                      !.tracked = FALSE] : c \in @}]

\* lines 226-230
basicDestroy(B) == [basicStop(B) EXCEPT !.tasks = <<>>, !.taskGroups = <<>>]

\* ---- initial state: the constructor (lines 57-64) -----------------------
\* The caller makes at most B API calls and installs no deferred hook, or one
\* of the hooks H.
InitWith(B, H) ==
    /\ budget = B
    /\ deferred \in {{}} \cup {{h} : h \in H}
    /\ totalThreads \in 1 .. MaxThreads
    /\ maxRetry \in 0 .. MaxRetryCfg
    /\ globalRetryLimit \in {LowRetryLimit, DefaultRetryLimit}
    /\ tasks = <<>>
    /\ taskGroups = <<>>
    /\ lanes = {}
    /\ runCount = 0
    /\ gSpawn = [x \in GroupIds \X TaskIds |-> 0]
    /\ gError = [x \in GroupIds \X TaskIds |-> 0]
    /\ groupDone = [g \in GroupIds |-> 0]
    /\ threads = Idle(totalThreads)
    /\ processing = <<>>
    /\ processed = <<>>
    /\ isProcessing = FALSE
    /\ isPaused = FALSE
    /\ procs = {}
    /\ retryCount = [i \in TaskIds |-> 0]
    /\ globalRetryCount = 0
    /\ taskStatus = [i \in TaskIds |-> "none"]
    /\ retryTimers = 0
    /\ coros = EmptyBag
    /\ dispatchCount = [i \in TaskIds |-> 0]
    /\ spawnCount = [i \in TaskIds |-> 0]
    /\ fired = [h \in {"onAllTasksDone", "onTaskRetry", "alreadyRunning",
                         "onTaskTimeout", "onDestroy", "resumed"} |-> 0]
    /\ calls = 0
    /\ lastCall = <<"new", Null>>
    /\ basic = BasicNew(totalThreads)

\* ---- API calls made by the caller ---------------------------------------
Call(op, i, S) ==
    /\ calls < budget
    /\ calls' = calls + 1
    /\ lastCall' = <<op, i>>
    /\ Becomes(S)
Indices == 0 .. Len(tasks) - 1

\* the caller installs the task list first
SetTasks == calls = 0 /\ \E ts \in TaskLists : Call("setTasks", Null, setTasks(Cur, ts))
SetGroupedTasks ==
    calls = 0 /\ \E gs \in GroupLists : Call("setGroupedTasks", Null, setGroupedTasks(Cur, gs))
Start == calls > 0 /\ Call("start", Null, start(Cur))
Stop == calls > 0 /\ Call("stop", Null, stop(Cur))
StopTask == calls > 0 /\ \E i \in Indices : Call("stopTask", i, stopTask(Cur, i))
Pause == calls > 0 /\ Call("pause", Null, pause(Cur))
Continue == calls > 0 /\ Call("continue", Null, continue(Cur))
CancelTask == calls > 0 /\ \E i \in Indices : Call("cancelTask", i, cancelTask(Cur, i))
Destroy == calls > 0 /\ Call("destroy", Null, destroy(Cur))
\* the caller installs another task set on an instance that has been used
ResetTasks == calls > 0 /\ \E ts \in TaskLists : Call("setTasks", Null, setTasks(Cur, ts))
ResetGroupedTasks ==
    calls > 0 /\ \E gs \in GroupLists : Call("setGroupedTasks", Null, setGroupedTasks(Cur, gs))

\* ---- resumptions of suspended calls -------------------------------------
At(pc, c) == c \in BagToSet(coros) /\ c.pc = pc
Step(S) == Becomes(S) /\ UNCHANGED <<calls, lastCall>>

Tick == \E c \in BagToSet(coros) : At("delay", c) /\ Step(runSingle(Resumed(Cur, c)))
OnTasksRunningDone ==
    \E c \in BagToSet(coros) : At("onTasksRunning", c) /\ Step(forLoop(Resumed(Cur, c), 0))
BeforeRunTaskDone ==
    \E c \in BagToSet(coros) : At("beforeRunTask", c)
        /\ Step(forLoop(spawn(Resumed(Cur, c), c.t, c.idx, c.cmd), c.t + 1))
BeforeStartDone ==
    \E c \in BagToSet(coros) : At("beforeStart", c) /\ Step(startBody(Resumed(Cur, c)))
AfterStartDone ==
    \E c \in BagToSet(coros) : At("afterStart", c) /\ Step(run(Resumed(Cur, c)))
BeforeStopDone ==
    \E c \in BagToSet(coros) : At("beforeStop", c) /\ Step(stopBody(Resumed(Cur, c)))
BeforeStopTaskDone ==
    \E c \in BagToSet(coros) : At("beforeStopTask", c) /\ Step(stopTaskBody(Resumed(Cur, c), c.idx))
AfterStopTaskDone ==
    \E c \in BagToSet(coros) : At("afterStopTask", c) /\ Step(stopTaskEnd(Resumed(Cur, c), c.idx))
BeforePauseDone ==
    \E c \in BagToSet(coros) : At("beforePause", c) /\ Step(pauseBody(Resumed(Cur, c)))

\* ---- events of the children and of the timers ---------------------------
Close ==
    \E p \in procs : p.phase = "live" /\ p.g = Null
        /\ \E code \in ExitCodes(p) : Step(closeA(Cur, p, code))
AfterRunTaskDone == \E p \in procs : p.phase = "afterRunTask" /\ Step(closeE(Cur, p))
OnTaskErrorDone == \E p \in procs : p.phase = "onTaskError" /\ Step(closeB(Cur, p))
OnTaskRetryDone == \E p \in procs : p.phase = "onTaskRetry" /\ Step(closeC(Cur, p))
Timeout == \E p \in procs : p.timerArmed /\ Step(timeout(Cur, p))
RetryTimer == retryTimers > 0 /\ Step(retryTimer(Cur))

\* the lane that awaits the close of grouped child p
LaneOf(p) == CHOOSE l \in lanes : l.run = p.att /\ l.g = p.g /\ l.pc = "child"
CloseG ==
    \E p \in procs : p.phase = "live" /\ p.g # Null
        /\ \E code \in ExitCodes(p) : Step(closeG(Cur, p, LaneOf(p), code))
OnTaskDoneDone ==
    \E l \in lanes : l.pc = "onTaskDone"
        /\ Step(lane([Cur EXCEPT !.lanes = @ \ {l}], [l EXCEPT !.k = @ + 1]))
OnGroupDoneDone ==
    \E l \in lanes : l.pc = "onGroupDone"
        /\ Step(laneEnd([Cur EXCEPT !.lanes = @ \ {l}], l))

\* ---- specifications -----------------------------------------------------
\* the steps the scheduler takes by itself once started, deadlines not expiring
Run ==
    \/ Tick \/ OnTasksRunningDone \/ BeforeRunTaskDone \/ BeforeStartDone \/ AfterStartDone
    \/ Close \/ AfterRunTaskDone \/ OnTaskRetryDone \/ RetryTimer

\* Spec: any API call at any moment
Init == InitWith(MaxCalls, Hooks)
Next ==
    \/ SetTasks \/ Start \/ Stop \/ StopTask \/ Pause \/ Continue \/ CancelTask
    \/ BeforeStopDone \/ BeforeStopTaskDone \/ AfterStopTaskDone \/ BeforePauseDone
    \/ Run
Spec == Init /\ [][Next]_vars

\* SpecRun: setTasks() and one start(), then the caller only waits
InitRun == InitWith(2, RunHooks)
NextRun == SetTasks \/ Start \/ Run
SpecRun == InitRun /\ [][NextRun]_vars

\* SpecPause: a run with pause() and continue()
InitPause == InitWith(MaxCalls + 1, RunHooks \cup {"beforePause"})
NextPause == SetTasks \/ Start \/ Pause \/ Continue \/ BeforePauseDone \/ Run
SpecPause == InitPause /\ [][NextPause]_vars

\* SpecCancel: a run with cancelTask(), before or after start(), and no
\* deferred hook; FairCancel: the poll timer and the retry timer fire and
\* every child closes
InitCancel == InitWith(MaxCalls, {})
NextCancel == SetTasks \/ Start \/ CancelTask \/ Tick \/ Close \/ RetryTimer
SpecCancel == InitCancel /\ [][NextCancel]_vars
FairCancel == SpecCancel /\ WF_vars(Tick) /\ WF_vars(Close) /\ WF_vars(RetryTimer)

\* SpecStop: a run with stop() and cancelTask(), where beforeRunTask or
\* beforeStop may be deferred
InitStop == InitWith(MaxCalls + 1, {"beforeRunTask", "beforeStop"})
NextStop ==
    \/ SetTasks \/ Start \/ Stop \/ CancelTask
    \/ BeforeStopDone \/ BeforeRunTaskDone \/ Tick \/ Close \/ RetryTimer
SpecStop == InitStop /\ [][NextStop]_vars

\* SpecDeadline: a run with stop() in which deadline
\* timers expire, where beforeRunTask may be deferred
InitDeadline == InitWith(MaxCalls, {"beforeRunTask"})
NextDeadline ==
    \/ SetTasks \/ Start \/ Stop
    \/ BeforeRunTaskDone \/ Tick \/ Close \/ RetryTimer \/ Timeout
SpecDeadline == InitDeadline /\ [][NextDeadline]_vars

\* SpecGroups: grouped mode: setGroupedTasks(), start(), then stop() or a
\* second start(); the task hook or the group hook may be deferred
GroupHooks == {"onTaskDone", "onGroupDone"}
InitGroups == InitWith(MaxCalls, GroupHooks)
RunG == CloseG \/ OnTaskDoneDone \/ OnGroupDoneDone
NextGroups == SetGroupedTasks \/ Start \/ Stop \/ RunG
SpecGroups == InitGroups /\ [][NextGroups]_vars

\* SpecDestroy: a flat or a grouped run with destroy() and a later start(),
\* no deferred hook
InitDestroy == InitWith(MaxCalls + 1, {})
NextDestroy ==
    \/ SetTasks \/ SetGroupedTasks \/ Start \/ Destroy
    \/ Tick \/ Close \/ RetryTimer \/ CloseG
SpecDestroy == InitDestroy /\ [][NextDestroy]_vars

\* SpecGroupRun: setGroupedTasks() and one start(), then the caller waits
InitGroupRun == InitWith(2, GroupHooks)
NextGroupRun == SetGroupedTasks \/ Start \/ RunG
SpecGroupRun == InitGroupRun /\ [][NextGroupRun]_vars

\* SpecReset: a flat run during or after which the caller installs another
\* task set, no deferred hook
InitReset == InitWith(MaxCalls, {})
NextReset ==
    \/ SetTasks \/ Start \/ ResetTasks \/ ResetGroupedTasks
    \/ Tick \/ Close \/ RetryTimer
SpecReset == InitReset /\ [][NextReset]_vars

\* SpecClose: setTasks() and one start(), where a hook of the close handler
\* may be deferred
InitClose == InitWith(2, {"afterRunTask", "onTaskError", "onTaskRetry"})
NextClose ==
    \/ SetTasks \/ Start \/ Tick \/ Close \/ RetryTimer
    \/ AfterRunTaskDone \/ OnTaskErrorDone \/ OnTaskRetryDone
SpecClose == InitClose /\ [][NextClose]_vars

\* ---- TaskProcessManager: actions and specifications ---------------------
maxVars == <<totalThreads, maxRetry, globalRetryLimit, deferred, tasks, threads,
             processing, processed, isProcessing, isPaused, procs, retryCount,
             globalRetryCount, taskStatus, retryTimers, coros, dispatchCount,
             spawnCount, fired, calls, lastCall, budget, taskGroups, lanes,
             runCount, gSpawn, gError, groupDone>>

BasicBecomes(B) == basic' = B /\ UNCHANGED maxVars
\* an API call of the caller, who makes at most MaxCalls + 1 of them
BasicCall(B) ==
    /\ basic.calls < MaxCalls + 1
    /\ BasicBecomes([B EXCEPT !.calls = basic.calls + 1])

BasicSetTasks ==
    basic.calls = 0 /\ \E ts \in TaskLists : BasicCall(basicSetTasks(basic, ts))
BasicSetGroupedTasks ==
    basic.calls = 0 /\ \E gs \in GroupLists : BasicCall(basicSetGroupedTasks(basic, gs))
BasicStart == basic.calls > 0 /\ BasicCall(basicStart(basic))
BasicStopTask ==
    /\ basic.calls > 0
    /\ \E i \in 0 .. Len(basic.tasks) - 1 : BasicCall(basicStopTask(basic, String(i)))
BasicStop == basic.calls > 0 /\ BasicCall(basicStop(basic))
BasicDestroy == basic.calls > 0 /\ BasicCall(basicDestroy(basic))
\* the delay of line 115 elapses
BasicTickTasks ==
    /\ basic.loops["runTasks"] > 0
    /\ BasicBecomes(runTasks([basic EXCEPT !.loops["runTasks"] = @ - 1]))
\* the delay of line 135 elapses
BasicTickGroups ==
    /\ basic.loops["runGroups"] > 0
    /\ BasicBecomes(basicRunGroups([basic EXCEPT !.loops["runGroups"] = @ - 1]))
\* a child closes
BasicClose == \E c \in basic.children : BasicBecomes(basicClose(basic, c))

InitBasic ==
    InitWith(0, {}) /\ maxRetry = 0 /\ globalRetryLimit = DefaultRetryLimit

\* SpecBasicFlat: setTasks(), start() and stopTask() calls with the polling
\* loop and the closes
NextBasicFlat ==
    \/ BasicSetTasks \/ BasicStart \/ BasicStopTask \/ BasicTickTasks \/ BasicClose
SpecBasicFlat == InitBasic /\ [][NextBasicFlat]_vars

\* SpecBasicGroups: setGroupedTasks() and start() calls with the polling
\* loop and the closes
NextBasicGroups ==
    \/ BasicSetGroupedTasks \/ BasicStart \/ BasicTickGroups \/ BasicClose
SpecBasicGroups == InitBasic /\ [][NextBasicGroups]_vars

\* SpecBasic: every operation of the basic manager
NextBasic ==
    \/ NextBasicFlat \/ NextBasicGroups \/ BasicStop \/ BasicDestroy
SpecBasic == InitBasic /\ [][NextBasic]_vars

TypeOK ==
    /\ \A k \in DOMAIN threads : threads[k] \in TaskIds \cup {Null, Undefined}
    /\ \A i \in TaskIds : taskStatus[i] \in Statuses \cup {"none"}

\* ---- properties ---------------------------------------------------------
LiveTasks == {p.idx : p \in {q \in procs : q.phase = "live"}}
InFlight == {processing[k] : k \in DOMAIN processing}
Completed == {processed[k] : k \in DOMAIN processed}
\* the loop started by start() has ended and nothing is pending
RunOver ==
    /\ fired["onAllTasksDone"] > 0
    /\ coros = EmptyBag
    /\ procs = {}
    /\ retryTimers = 0

\* C1: in flat mode the number of tasks whose spawned process has not yet
\* closed never exceeds the configured thread count.
C1_RunningAtMostThreads == Cardinality(LiveTasks) <= totalThreads

\* C3: a task whose process exits nonzero on every attempt has, when the run
\* is over and the global ceiling was not reached, been spawned exactly
\* maxRetry + 1 times, has status failed and is in the completed set.
C3_FailingTaskAttempts ==
    RunOver /\ globalRetryCount <= globalRetryLimit =>
        \A i \in Indices : tasks[i + 1] = "fail" =>
            /\ spawnCount[i] = maxRetry + 1
            /\ taskStatus[i] = "failed"
            /\ i \in Completed

\* the tasks a dispatch may take, in the words of the scheduler's contract
EligibleTasks ==
    {i \in Indices : /\ tasks[i + 1] # "null"
                     /\ i \notin InFlight
                     /\ i \notin Completed
                     /\ taskStatus[i] # "cancelled"}
Dispatched == {i \in TaskIds : dispatchCount'[i] > dispatchCount[i]}

\* C2: the tasks a step dispatches are the lowest-index eligible ones, and a
\* task dispatched for the first time has a higher index than every task
\* dispatched before it.
C2_LowestIndexFirst ==
    [][\A i \in Dispatched :
          /\ i \in EligibleTasks
          /\ \E k \in DOMAIN threads' : threads'[k] = i
          /\ \A j \in EligibleTasks : j < i => j \in Dispatched
          /\ dispatchCount[i] = 0 => \A j \in TaskIds : dispatchCount[j] > 0 => j < i]_vars

\* task 1 has closed, failed and been dispatched again while task 0,
\* dispatched before it, is still in flight
C2_Witness ==
    /\ dispatchCount[0] = 1 /\ dispatchCount[1] = 2
    /\ 0 \in InFlight /\ 1 \in InFlight
    /\ retryCount[1] = 1 /\ lastCall[1] = "start"

\* C4: for one task that fails on every attempt, with maxRetry = 2, the
\* global retry counter stands at 2 when the task is permanently failed.
C4_GlobalRetryCountIsTwo ==
    /\ RunOver /\ maxRetry = 2 /\ tasks = <<"fail">>
    /\ spawnCount[0] = 3 /\ taskStatus[0] = "failed" /\ 0 \in Completed
    => globalRetryCount = 2

\* C5: with maxRetry = 0 the run ends with every task completed and spawned
\* exactly once, and the retry hook never fires.
C5_NoRetryRunCompletes ==
    /\ [](maxRetry = 0 =>
            /\ fired["onTaskRetry"] = 0
            /\ RunOver => /\ Len(processed) = Len(tasks)
                          /\ \A i \in Indices : spawnCount[i] = 1)
    /\ [][maxRetry = 0 => Completed \subseteq Completed']_vars

\* C6: a task whose process exits 0 is dispatched and spawned once, its status
\* goes from waiting to running to done, and done is final.
C6_OkTaskRunsOnce ==
    [][\A i \in Indices : tasks[i + 1] = "ok" =>
          /\ dispatchCount'[i] <= 1 /\ spawnCount'[i] <= 1
          /\ taskStatus[i] = "done" => taskStatus'[i] = "done"
          /\ taskStatus'[i] # taskStatus[i] =>
                <<taskStatus[i], taskStatus'[i]>> \in
                    {<<"waiting", "running">>, <<"running", "done">>}]_vars

\* the run is over and a task that exits 0 is done after one spawn
C6_Witness ==
    /\ RunOver
    /\ \E i \in Indices : tasks[i + 1] = "ok" /\ taskStatus[i] = "done" /\ spawnCount[i] = 1
    /\ \E j \in Indices : tasks[j + 1] = "fail" /\ spawnCount[j] > 1

\* C7: while the paused flag stays set no task is assigned to a slot or
\* becomes running, and the step that sets the flag leaves the children, the
\* slots and the in-flight set alone.
C7_NoDispatchWhilePaused ==
    [][/\ isPaused /\ isPaused' =>
            \A i \in TaskIds : /\ dispatchCount'[i] = dispatchCount[i]
                               /\ taskStatus'[i] = "running" => taskStatus[i] = "running"
       /\ ~isPaused /\ isPaused' =>
            /\ procs' = procs /\ threads' = threads /\ processing' = processing]_vars

Called(op) == calls' = calls + 1 /\ lastCall'[1] = op

\* C8: continue() on a run paused while start() is active clears the paused
\* flag.
C8_ContinueResumes ==
    [][Called("continue") /\ isPaused /\ isProcessing => ~isPaused']_vars

\* C9: cancelTask(i) changes nothing when i is in flight; otherwise it nulls
\* the spec and sets status cancelled, and a task whose spec is nulled is
\* never again assigned to a slot or spawned.
C9_CancelTask ==
    [][/\ \A i \in Indices :
            Called("cancelTask") /\ lastCall'[2] = i =>
                IF i \in InFlight
                THEN UNCHANGED <<tasks, threads, processing, processed, procs,
                                 taskStatus, isProcessing, isPaused, coros>>
                ELSE tasks'[i + 1] = "null" /\ taskStatus'[i] = "cancelled"
       /\ \A i \in Indices :
            tasks[i + 1] = "null" =>
                /\ dispatchCount'[i] = dispatchCount[i]
                /\ spawnCount'[i] = spawnCount[i]]_vars

\* C10: once start() has set the processing flag, the loop ends: the flag is
\* cleared and the all-done hook has fired.
C10_LoopTerminates ==
    isProcessing ~> (~isProcessing /\ fired["onAllTasksDone"] > 0)

\* C11: a run of setTasks() and one start() fires the overall-completion hook
\* at most once, and exactly once when the run is over.
C11_AllDoneOnce ==
    /\ fired["onAllTasksDone"] <= 1
    /\ RunOver => fired["onAllTasksDone"] = 1

\* the deadline timer of child p expires in this step
Expired(p) ==
    /\ fired'["onTaskTimeout"] = fired["onTaskTimeout"] + 1
    /\ p.timerArmed
    /\ \E q \in procs' : q.idx = p.idx /\ q.att = p.att /\ ~q.timerArmed

\* C12: when the deadline of a process that has not closed expires, the step
\* sets the task's status to timeout, fires the timeout hook and leaves the
\* process with the kill signal sent, and no retry counter moves in that step:
\* the close handler of the attempt has not run yet.
C12_DeadlineBeforeRetry ==
    [][\A p \in procs : p.phase = "live" /\ Expired(p) =>
          /\ taskStatus'[p.idx] = "timeout"
          /\ \E q \in procs' : q.idx = p.idx /\ q.att = p.att /\ q.phase = "live" /\ q.killed
          /\ retryCount' = retryCount /\ globalRetryCount' = globalRetryCount]_vars

\* the scheduler is active: the processing flag is set, or a start() is
\* suspended in its beforeStart hook
Active == isProcessing \/ \E c \in BagToSet(coros) : c.fn = "start"

\* C13: start() called while the scheduler is active is rejected with the
\* already-running error, changes no scheduler state and starts no loop.
C13_StartRejected ==
    [][Called("start") /\ Active =>
          /\ fired'["alreadyRunning"] = fired["alreadyRunning"] + 1
          /\ UNCHANGED <<tasks, threads, processing, processed, isProcessing,
                          isPaused, procs, retryCount, globalRetryCount,
                          taskStatus, retryTimers, coros>>]_vars

\* the step runs the body of the API call op: the call itself when its
\* before-hook does not suspend it, else the resumption after that hook
Body(op, hook) ==
    \/ Called(op) /\ ~Deferred(hook)
    \/ \E c \in BagToSet(coros) :
          c.fn = op /\ c.pc = hook /\ CopiesIn(c, coros') < CopiesIn(c, coros)

\* child p of this state, as it is in the next state
Same(p, q) == q.idx = p.idx /\ q.att = p.att /\ q.g = p.g

\* C14: the body of stop() clears the processing and paused flags, leaves
\* every process that had not closed with the kill signal sent, leaves no
\* deadline timer armed, every slot idle and the in-flight and completed
\* sets empty.
C14_StopKillsAll ==
    [][Body("stop", "beforeStop") =>
          /\ ~isProcessing' /\ ~isPaused'
          /\ \A p \in procs : p.phase = "live" =>
                \E q \in procs' : Same(p, q) /\ q.killed
          /\ \A q \in procs' : ~q.timerArmed
          /\ threads' = Idle(totalThreads)
          /\ processing' = <<>> /\ processed' = <<>>]_vars

\* stopTask(i) is the latest API call and its body has run
Stopped(i) ==
    /\ lastCall = <<"stopTask", i>>
    /\ ~\E c \in BagToSet(coros) : c.fn = "stopTask" /\ c.pc = "beforeStopTask"

\* C15: once the body of stopTask(i) has run, task i is in the completed set,
\* in no slot and not in flight, and while the caller makes no further call
\* it is neither dispatched nor spawned again.
C15_StopTaskCompletes ==
    [][\A i \in Indices :
          /\ Stopped(i)' =>
                /\ i \in Completed' /\ i \notin InFlight'
                /\ \A k \in DOMAIN threads' : threads'[k] # i
          /\ Stopped(i) /\ lastCall' = lastCall =>
                /\ dispatchCount'[i] = dispatchCount[i]
                /\ spawnCount'[i] = spawnCount[i]]_vars

\* start() has run its body at least once
Started == isProcessing \/ runCount > 0 \/ fired["onAllTasksDone"] > 0

\* C16: destroy() after start() leaves every tracked process with the kill signal sent, no
\* deadline timer armed, no slot taken, the in-flight and completed sets, the
\* flat list and the grouped lanes empty, and fires onDestroy; a start() that
\* follows it spawns nothing and fires the all-done hook at once.
C16_DestroyClearsAll ==
    [][/\ Called("destroy") /\ Started =>
            /\ \A p \in procs : p.phase = "live" /\ p.tracked =>
                  \E q \in procs' : Same(p, q) /\ q.killed
            /\ \A q \in procs' : ~q.timerArmed /\ ~q.tracked
            /\ \A k \in DOMAIN threads' : threads'[k] = Null
            /\ processing' = <<>> /\ processed' = <<>>
            /\ tasks' = <<>> /\ taskGroups' = <<>>
            /\ fired'["onDestroy"] = fired["onDestroy"] + 1
       /\ Called("start") /\ lastCall[1] = "destroy" /\ Started =>
            /\ spawnCount' = spawnCount /\ gSpawn' = gSpawn
            /\ fired'["onAllTasksDone"] = fired["onAllTasksDone"] + 1]_vars

\* the grouped children that have not closed
LiveG(P, g) == {p \in P : p.g = g /\ p.phase = "live"}
\* the tasks of the installed groups, as <<group, task>>
GroupTasks ==
    {x \in GroupIds \X TaskIds : x[1] < Len(taskGroups) /\ x[2] < Len(taskGroups[x[1] + 1])}
\* the run started by start() in grouped mode has ended
GroupRunOver == runCount > 0 /\ lanes = {} /\ procs = {}

\* C17: start() spawns the first task of every group whatever the thread
\* count is; a lane never has two live processes; task k+1 of a lane is
\* spawned only once task k has been spawned and its process has closed.
C17_LanesSequential ==
    [][/\ \A g \in GroupIds : Cardinality(LiveG(procs', g)) <= 1
       /\ \A x \in GroupTasks :
            gSpawn'[x] > gSpawn[x] /\ x[2] > 0 =>
                /\ gSpawn[<<x[1], x[2] - 1>>] = 1
                /\ ~\E p \in procs' : p.g = x[1] /\ p.idx = x[2] - 1
       /\ Called("start") =>
            \A x \in GroupTasks : x[2] = 0 => gSpawn'[x] = 1]_vars

\* with one thread, task 1 of group 0 and task 0 of group 1 are live together
C17_Witness ==
    /\ totalThreads = 1
    /\ \E p \in procs : p.g = 0 /\ p.idx = 1 /\ p.phase = "live"
    /\ \E p \in procs : p.g = 1 /\ p.idx = 0 /\ p.phase = "live"

\* C18: the group hook fires at most once per group, and only when every
\* task of the group has been spawned and has closed; the all-done hook fires
\* at most once, and only when every group's hook has fired, no lane is
\* pending and the processing flag is cleared; at the end of the run each has
\* fired once.
C18_GroupHooks ==
    [][/\ \A g \in GroupIds :
            /\ groupDone'[g] <= 1
            /\ groupDone'[g] > groupDone[g] =>
                  /\ g < Len(taskGroups)
                  /\ \A x \in GroupTasks : x[1] = g => gSpawn'[x] = 1
                  /\ LiveG(procs', g) = {}
       /\ fired'["onAllTasksDone"] <= 1
       /\ fired'["onAllTasksDone"] > fired["onAllTasksDone"] =>
            /\ \A g \in GroupIds : g < Len(taskGroups) => groupDone'[g] = 1
            /\ lanes' = {} /\ procs' = {} /\ ~isProcessing'
       /\ GroupRunOver' =>
            /\ fired'["onAllTasksDone"] = 1
            /\ \A g \in GroupIds : g < Len(taskGroups) => groupDone'[g] = 1]_vars

\* the run of two groups of two tasks is over, the group hook deferred
C18_Witness ==
    /\ GroupRunOver /\ deferred = {"onGroupDone"}
    /\ Len(taskGroups) = 2 /\ Len(taskGroups[1]) = 2 /\ Len(taskGroups[2]) = 2
    /\ groupDone[0] = 1 /\ groupDone[1] = 1 /\ fired["onAllTasksDone"] = 1

\* C19: a grouped task is spawned at most once and has no deadline timer;
\* the error hook fires for a task only on its nonzero exit; when the run is
\* over every task of every group has been spawned once, and the error hook
\* has fired once for each task that exits nonzero.
C19_GroupFailureIsolated ==
    [][/\ \A x \in GroupTasks :
            /\ gSpawn'[x] <= 1
            /\ gError'[x] > gError[x] =>
                  /\ taskGroups[x[1] + 1][x[2] + 1] = "fail"
                  /\ taskStatus'[x[2]] = "failed"
       /\ \A p \in procs' : p.g # Null => ~p.timerArmed
       /\ retryTimers' = 0
       /\ GroupRunOver' =>
            \A x \in GroupTasks :
                /\ gSpawn'[x] = 1
                /\ gError'[x] = IF taskGroups[x[1] + 1][x[2] + 1] = "fail" THEN 1 ELSE 0]_vars

\* the run is over; the first task of group 0 failed, the task after it and
\* the failing task of group 1 were run
C19_Witness ==
    /\ GroupRunOver
    /\ taskGroups = <<(<<"fail", "ok">>), (<<"fail">>)>>
    /\ gSpawn[<<0, 1>>] = 1 /\ gError[<<0, 0>>] = 1 /\ gError[<<1, 0>>] = 1

\* C20: after setTasks() or setGroupedTasks() every slot is idle, the
\* in-flight and completed sets are empty, no deadline timer is armed, and
\* the per-task retry counters and the global retry counter are zero.
C20_InstallResets ==
    [][Called("setTasks") \/ Called("setGroupedTasks") =>
          /\ threads' = Idle(totalThreads)
          /\ processing' = <<>> /\ processed' = <<>>
          /\ \A q \in procs' : ~q.timerArmed
          /\ \A i \in TaskIds : retryCount'[i] = 0
          /\ globalRetryCount' = 0]_vars

\* C21: setTasks() and setGroupedTasks() leave every installed task with
\* status waiting, and at every later instant every installed task, of the
\* flat list and of the groups, has one of the seven statuses.
C21_StatusTable ==
    [][/\ Called("setTasks") =>
            \A i \in 0 .. Len(tasks') - 1 : taskStatus'[i] = "waiting"
       /\ Called("setGroupedTasks") =>
            \A x \in GroupTasks' : taskStatus'[x[2]] = "waiting"
       /\ \A i \in 0 .. Len(tasks') - 1 : taskStatus'[i] \in Statuses
       /\ \A x \in GroupTasks' : taskStatus'[x[2]] \in Statuses]_vars

\* C22: in every state the status report has running + done <= total and
\* waiting >= 0.
C22_StatusCounts ==
    /\ getStatus(Cur).running + getStatus(Cur).done <= getStatus(Cur).total
    /\ getStatus(Cur).waiting >= 0

\* C23: no task index is both in flight and completed, and no index occurs
\* twice in the in-flight list or in the completed list.
C23_InFlightCompletedDisjoint ==
    /\ InFlight \cap Completed = {}
    /\ Cardinality(InFlight) = Len(processing)
    /\ Cardinality(Completed) = Len(processed)

\* stopTask(0) has completed task 0 and the close handler of the killed child
\* has run after it
C23_Witness ==
    /\ lastCall = <<"stopTask", 0>> /\ coros = EmptyBag /\ procs = {}
    /\ taskStatus[0] = "failed" /\ processed = <<0>> /\ spawnCount[0] = 1

\* C24: a task that has failed and is the only one that has, is dispatched
\* again only when no retry timer is pending any more, or by the step in
\* which a retry timer fires: not before the retry delay of its failure has
\* elapsed.
C24_RetryAfterDelay ==
    [][\A i \in Indices :
          /\ dispatchCount'[i] > dispatchCount[i]
          /\ retryCount[i] > 0
          /\ \A j \in Indices \ {i} : retryCount[j] = 0
          => retryTimers = 0 \/ retryTimers' < retryTimers]_vars

\* C25: the step in which globalRetryCount comes to exceed globalRetryLimit
\* clears the processing flag and leaves every other live process as it was,
\* neither killed nor untracked; once the limit is exceeded no task is
\* assigned to a slot or spawned (no later start() in this specification).
C25_GlobalHalt ==
    [][/\ globalRetryCount <= globalRetryLimit /\ globalRetryCount' > globalRetryLimit =>
            /\ ~isProcessing'
            /\ \A p \in procs :
                 (\E q \in procs' : Same(p, q) /\ q.phase = "live") => p \in procs'
       /\ globalRetryCount > globalRetryLimit =>
            /\ dispatchCount' = dispatchCount
            /\ spawnCount' = spawnCount]_vars

\* C26: while the after-run hook or the error hook of a close handler is
\* pending, the deadline timer of that process is disarmed, its slot is
\* released and its task is out of the in-flight set; at the after-run hook
\* the task is in the completed set; at the error hook the status is already
\* failed.
C26_CloseOrder ==
    \A p \in procs :
        /\ p.phase \in {"afterRunTask", "onTaskError"} =>
              /\ ~p.timerArmed
              /\ p.idx \notin InFlight
              /\ threads[p.t + 1] # p.idx
        /\ p.phase = "afterRunTask" => p.idx \in Completed
        /\ p.phase = "onTaskError" => taskStatus[p.idx] = "failed"

\* C27: a flat-mode process that has not closed has its deadline timer armed,
\* unless the kill signal has been sent to it (by the timer itself, by
\* stop() or by stopTask()).
C27_LiveProcessHasTimer ==
    \A p \in procs : p.g = Null /\ p.phase = "live" => p.timerArmed \/ p.killed

\* C28: continue() changes nothing when the scheduler is not paused or the
\* processing flag is set; otherwise it clears the paused flag and runs the
\* flat loop: the flag is set and a loop is polling when tasks are left to
\* complete, else the loop ends at once with the all-done hook; the tasks it
\* dispatches are tasks not yet completed.
C28_Continue ==
    [][Called("continue") =>
          IF ~isPaused \/ isProcessing
          THEN UNCHANGED <<tasks, threads, processing, processed, isProcessing,
                           isPaused, procs, retryCount, globalRetryCount,
                           taskStatus, retryTimers, coros, dispatchCount,
                           spawnCount, fired>>
          ELSE /\ ~isPaused'
               /\ IF Len(processed) < Len(tasks)
                  THEN /\ isProcessing'
                       /\ \E c \in BagToSet(coros') :
                            c.fn = "runSingle" /\ CopiesIn(c, coros') > CopiesIn(c, coros)
                  ELSE /\ ~isProcessing'
                       /\ fired'["onAllTasksDone"] = fired["onAllTasksDone"] + 1
               /\ \A i \in Dispatched : i \notin Completed /\ i \notin InFlight]_vars

\* continue() got past its test once, set the processing flag, and its loop
\* has dispatched task 1 while task 0 is already completed
C28_Witness ==
    /\ lastCall[1] = "continue" /\ fired["resumed"] = 1
    /\ isProcessing /\ ~isPaused
    /\ processed = <<0>> /\ processing = <<1>> /\ dispatchCount[1] = 1

\* stop() was the caller's last call and its body has run
StopReturned ==
    /\ lastCall[1] = "stop"
    /\ ~\E c \in BagToSet(coros) : c.fn = "stop"

\* C29: once stop() has returned, and until the caller's next call, no
\* process is spawned and no task becomes running.
C29_NothingRunsAfterStop ==
    [][StopReturned /\ lastCall' = lastCall /\ calls' = calls =>
          /\ spawnCount' = spawnCount
          /\ \A i \in Indices :
                taskStatus'[i] = "running" => taskStatus[i] = "running"]_vars

\* C30: the slot table and the in-flight set agree: every index in flight
\* occupies exactly one slot and every occupied slot holds an index in flight.
C30_SlotsMatchInFlight ==
    /\ \A i \in InFlight : Cardinality({k \in DOMAIN threads : threads[k] = i}) = 1
    /\ \A k \in DOMAIN threads : threads[k] # Null => threads[k] \in InFlight

\* the keys of the tasks of the installed groups
BasicGroupTaskKeys ==
    UNION {{TaskKey(String(g), k) : k \in 0 .. Len(basic.taskGroups[g + 1]) - 1}
             : g \in 0 .. Len(basic.taskGroups) - 1}

\* C31: in the basic manager with grouped tasks, when onAllTasksDone has
\* fired every group has been dispatched once and every task of every group
\* has been spawned exactly once and has closed; at most totalThreads groups
\* have a process at a time, and a group has at most one process at a time.
C31_BasicGroupsRunOnce ==
    /\ basic.allDone > 0 =>
          /\ \A g \in 0 .. Len(basic.taskGroups) - 1 :
                basic.groupsStarted[String(g)] = 1
          /\ \A key \in BasicGroupTaskKeys :
                basic.spawned[key] = 1 /\ Includes(basic.processed, key)
    /\ Cardinality({c.groupKey : c \in basic.children}) <= totalThreads
    /\ \A c, d \in basic.children : c.groupKey = d.groupKey => c = d

\* C32: in the basic manager's flat mode no task key has been spawned more
\* than once and at most totalThreads processes have not yet closed.
C32_BasicSpawnOnce ==
    /\ \A i \in 0 .. Len(basic.tasks) - 1 : basic.spawned[String(i)] <= 1
    /\ Cardinality(basic.children) <= totalThreads

====
